---- MODULE Spec2Model ----
(***************************************************************************)
(* A model of the Pelm SDK (src/index.ts): the module-level credential     *)
(* context, the SDK factory, the token exchange pipeline, the resource     *)
(* accessors and the usage aggregator.                                     *)
(*                                                                         *)
(* The model follows one invocation of one operation of the SDK (the       *)
(* "run") through its awaits, interleaved with invocations of the factory  *)
(* by other tasks of the process.  An action is one synchronous stretch    *)
(* of JavaScript: from an invocation, or from the settling of a promise,   *)
(* up to the next await.                                                   *)
(***************************************************************************)
EXTENDS Integers, Sequences, FiniteSets, TLC

VARIABLES
    pelmClientId,   \* index.ts:5  module-level client id
    pelmSecret,     \* index.ts:6  module-level secret
    sdks,           \* the factory invocations so far, in order: <<apiClientId, apiSecret>>
    op,             \* the operation the run invoked ("none" before it starts)
    via,            \* the bundle the run was invoked through (0: the module export)
    args,           \* the arguments of the run
    status,         \* "idle" | "running" | "returned" | "failed"
    ret,            \* the value the run's promise resolved with
    err,            \* the failure the run's promise rejected with
    calls,          \* the HTTP calls issued so far, in issue order
    values,         \* Promise.all's result array (getBillPdfs)
    remaining,      \* Promise.all's count of promises not yet fulfilled
    firstArrival    \* the index of the call whose body arrived first (0: none yet)

vars == <<pelmClientId, pelmSecret, sdks, op, via, args, status, ret, err,
          calls, values, remaining, firstArrival>>

-----------------------------------------------------------------------------
(* Bounds of the model *)

MaxFactory == 2
MaxIds == 2
MaxIntervals == 3

-----------------------------------------------------------------------------
(* Values *)

\* The JavaScript value undefined (an unassigned `let`, a missing property).
Undefined == "<undefined>"

\* The credential pairs the callers of the factory use.
ClientPairs == {<<"c1", "s1">>, <<"c2", "s2">>}

UserIds == {"u1"}
ProviderCodes == {"util1"}
Usernames == {"alice"}
Passwords == {"pw"}
ConnectTokens == {"ct0"}
AuthCodes == {"ac0"}
AccessTokens == {"at0"}
AccountIds == {"acct1"}
BillIds == {"b1", "b2"}

\* The JSON bodies the upstream API answers with: two complete ones and an
\* error body that holds none of the fields the wrappers read.
Bodies ==
    { [connect_token |-> "ct1", authorization_code |-> "ac1", access_token |-> "at1"],
      [connect_token |-> "ct2", authorization_code |-> "ac2", access_token |-> "at2"],
      [error |-> "invalid"] }

NoResponse == [pending |-> TRUE]
NoArgs == [none |-> TRUE]
NoBody == [k \in {} |-> ""]
Hole == [hole |-> TRUE]
NoError == [layer |-> "none", slot |-> 0]

\* response.field : the property, or undefined when the object has none.
Property(response, field) ==
    IF field \in DOMAIN response THEN response[field] ELSE Undefined

\* `${x}` : a template literal renders undefined as the text "undefined".
Template(x) == IF x = Undefined THEN "undefined" ELSE x

Bearer(token) == "Bearer " \o Template(token)

-----------------------------------------------------------------------------
(* HTTP primitives *)

\* fetch(url, {method, headers, body}): the call as issued, its promise pending.
\* sdk is the number of factory invocations that preceded the call and
\* slot the position of the call in its run.
Fetch(method, url, headers, body, slot) ==
    [method |-> method, url |-> url, headers |-> headers, body |-> body,
     phase |-> "fetch", resp |-> NoResponse, error |-> NoError,
     sdk |-> Len(sdks), slot |-> slot]

\* postRequest: every key of body is appended to the form, then fetch.
postRequest(url, body, headers, slot) ==
    Fetch("POST", url, headers, [key \in DOMAIN body |-> body[key]], slot)

getRequest(url, headers, slot) ==
    Fetch("GET", url, headers, NoBody, slot)

-----------------------------------------------------------------------------
(* The requests of the token exchange pipeline *)

ConnectTokenHeaders ==
    ("accept" :> "application/json") @@ ("pelm-client-id" :> pelmClientId)
        @@ ("pelm-secret" :> pelmSecret)

ConnectTokenRequest(pelmUserId, slot) ==
    postRequest("https://api.pelm.com/auth/connect-token",
                [user_id |-> pelmUserId], ConnectTokenHeaders, slot)

\* Mutant: the authorization header without its "Bearer " scheme.
AuthCodeHeaders_NoScheme(connectToken) ==
    ("accept" :> "application/json") @@ ("authorization" :> Template(connectToken))

AuthCodeHeaders(connectToken) ==
    ("accept" :> "application/json") @@ ("authorization" :> Bearer(connectToken))

AuthCodeRequest(utilityProviderCode, username, password, connectToken, slot) ==
    postRequest("https://api.pelm.com/connect",
                [utility_id |-> utilityProviderCode, username |-> username,
                 password |-> password],
                AuthCodeHeaders(connectToken), slot)

\* Mutant: the two credential values in each other's header.
AccessTokenHeaders_Swapped ==
    ("accept" :> "application/json") @@ ("pelm-client-id" :> pelmSecret)
        @@ ("pelm-secret" :> pelmClientId)

AccessTokenHeaders ==
    ("accept" :> "application/json") @@ ("pelm-client-id" :> pelmClientId)
        @@ ("pelm-secret" :> pelmSecret)

AccessTokenBody(authCode) == [code |-> authCode]

AccessTokenRequest(authCode, slot) ==
    postRequest("https://api.pelm.com/auth/token", AccessTokenBody(authCode),
                AccessTokenHeaders, slot)

-----------------------------------------------------------------------------
(* Initial state: the module is loaded, nothing has been invoked. *)

Init ==
    /\ pelmClientId = Undefined
    /\ pelmSecret = Undefined
    /\ sdks = << >>
    /\ op = "none"
    /\ via = 0
    /\ args = NoArgs
    /\ status = "idle"
    /\ ret = Undefined
    /\ err = NoError
    /\ calls = << >>
    /\ values = << >>
    /\ remaining = 0
    /\ firstArrival = 0

\* The bundles returned so far; every bundle holds the same module-level functions.
Bundles == 1..Len(sdks)

\* The run starts: the synchronous part of the invoked operation has issued
\* `issued` and is suspended at its first await.
Begin(name, bundle, arguments, issued) ==
    /\ op' = name
    /\ via' = bundle
    /\ args' = arguments
    /\ calls' = issued
    /\ UNCHANGED <<pelmClientId, pelmSecret, sdks, err, firstArrival>>

\* The run is suspended at an await.
Suspend ==
    /\ status' = "running"
    /\ UNCHANGED <<ret, values, remaining>>

-----------------------------------------------------------------------------
(* SDK factory, index.ts:258-272 *)

\* Mutant: the factory keeps the credentials of its first invocation.
StoreCredentials_FirstWins(apiClientId, apiSecret) ==
    IF pelmClientId = Undefined THEN <<apiClientId, apiSecret>>
    ELSE <<pelmClientId, pelmSecret>>

\* The credential context after PelmSDK(apiClientId, apiSecret).
StoreCredentials(apiClientId, apiSecret) == <<apiClientId, apiSecret>>

PelmSDK ==
    \E pair \in ClientPairs :
        /\ Len(sdks) < MaxFactory
        /\ pelmClientId' = StoreCredentials(pair[1], pair[2])[1]
        /\ pelmSecret' = StoreCredentials(pair[1], pair[2])[2]
        /\ sdks' = Append(sdks, pair)
        /\ UNCHANGED <<op, via, args, status, ret, err, calls, values, remaining, firstArrival>>

-----------------------------------------------------------------------------
(* Invocations of the token exchange pipeline *)

\* getOrCreatePelmToken is also a module export: it can run before any factory call.
CallGetOrCreatePelmToken ==
    /\ status = "idle"
    /\ \E b \in {0} \cup Bundles, providerCode \in ProviderCodes, pelmUserId \in UserIds,
       username \in Usernames, password \in Passwords :
        /\ Begin("getOrCreatePelmToken", b,
                 [providerCode |-> providerCode, pelmUserId |-> pelmUserId,
                  username |-> username, password |-> password],
                 <<ConnectTokenRequest(pelmUserId, 1)>>)
        /\ Suspend

CallGetConnectToken ==
    /\ status = "idle"
    /\ \E b \in Bundles, pelmUserId \in UserIds :
        /\ Begin("getConnectToken", b, [pelmUserId |-> pelmUserId],
                 <<ConnectTokenRequest(pelmUserId, 1)>>)
        /\ Suspend

CallGetAuthCode ==
    /\ status = "idle"
    /\ \E b \in Bundles, utilityProviderCode \in ProviderCodes, username \in Usernames,
       password \in Passwords, connectToken \in ConnectTokens :
        /\ Begin("getAuthCode", b,
                 [utilityProviderCode |-> utilityProviderCode, username |-> username,
                  password |-> password, connectToken |-> connectToken],
                 <<AuthCodeRequest(utilityProviderCode, username, password,
                                   connectToken, 1)>>)
        /\ Suspend

CallGetAccessToken ==
    /\ status = "idle"
    /\ \E b \in Bundles, authCode \in AuthCodes :
        /\ Begin("getAccessToken", b, [authCode |-> authCode],
                 <<AccessTokenRequest(authCode, 1)>>)
        /\ Suspend

-----------------------------------------------------------------------------
(* Resource accessors *)

\* Mutant: the secret header left out.
AccountsHeaders_NoSecret(pelmAccessToken) ==
    ("Authorization" :> Bearer(pelmAccessToken)) @@ ("Pelm-Client-Id" :> pelmClientId)

AccountsHeaders(pelmAccessToken) ==
    ("Authorization" :> Bearer(pelmAccessToken)) @@ ("Pelm-Client-Id" :> pelmClientId)
        @@ ("Pelm-Secret" :> pelmSecret)

CallGetPelmAccounts ==
    /\ status = "idle"
    /\ \E b \in Bundles, pelmAccessToken \in AccessTokens :
        /\ Begin("getPelmAccounts", b, [pelmAccessToken |-> pelmAccessToken],
                 <<getRequest("https://api.pelm.com/accounts",
                              AccountsHeaders(pelmAccessToken), 1)>>)
        /\ Suspend

BillsHeaders(pelmAccessToken) ==
    ("Authorization" :> Bearer(pelmAccessToken)) @@ ("Pelm-Client-Id" :> pelmClientId)
        @@ ("Pelm-Secret" :> pelmSecret)

CallGetBillsPelm ==
    /\ status = "idle"
    /\ \E b \in Bundles, pelmAccessToken \in AccessTokens :
        /\ Begin("getBillsPelm", b, [pelmAccessToken |-> pelmAccessToken],
                 <<getRequest("https://api.pelm.com/bills",
                              BillsHeaders(pelmAccessToken), 1)>>)
        /\ Suspend

BillPdfUrl(billId) == "https://api.pelm.com/bills/" \o Template(billId) \o "/pdf"

BillPdfHeaders(pelmAccessToken) ==
    ("accept" :> "application/pdf") @@ ("authorization" :> Bearer(pelmAccessToken))
        @@ ("pelm-client-id" :> pelmClientId) @@ ("pelm-secret" :> pelmSecret)

\* pelmBillIds.map(async (billId) => ...): every callback runs up to its await
\* of getRequest, so all the GETs are issued before map returns.
BillPdfRequests(pelmAccessToken, pelmBillIds) ==
    [i \in 1..Len(pelmBillIds) |->
        getRequest(BillPdfUrl(pelmBillIds[i]), BillPdfHeaders(pelmAccessToken), i)]

\* The lists of bill ids of at most MaxIds elements.
BillIdLists == UNION {[1..n -> BillIds] : n \in 0..MaxIds}

\* Promise.all over no promise at all resolves with the empty array.
CallGetBillPdfs ==
    /\ status = "idle"
    /\ \E b \in Bundles, pelmAccessToken \in AccessTokens, pelmBillIds \in BillIdLists :
        /\ Begin("getBillPdfs", b,
                 [pelmAccessToken |-> pelmAccessToken, pelmBillIds |-> pelmBillIds],
                 BillPdfRequests(pelmAccessToken, pelmBillIds))
        /\ values' = [i \in 1..Len(pelmBillIds) |-> Hole]
        /\ remaining' = Len(pelmBillIds)
        /\ IF Len(pelmBillIds) = 0
             THEN status' = "returned" /\ ret' = << >>
             ELSE status' = "running" /\ ret' = ret

-----------------------------------------------------------------------------
(* getPelmIntervals, index.ts:216-233 *)

\* A JavaScript number is held as its count of thousandths, which is exact
\* for an integer count of milliseconds divided by 1000.
Thousandths == 1000

Number(n) == n * Thousandths

\* x / 1000, for x a whole number of milliseconds.
DivideBy1000(x) == x \div 1000

\* An optional Date argument: absent, or new Date(ms).
Absent == [kind |-> "absent", ms |-> 0]
Date(ms) == [kind |-> "date", ms |-> ms]
MsValues == {-1500, 0, 1, 1000, 1500, 12340}
Dates == {Absent} \cup {Date(ms) : ms \in MsValues}

getTime(date) == Number(date.ms)

\* Mutant: the milliseconds sent undivided.
UnixSeconds_Milliseconds(date) ==
    IF date.kind = "date" /\ getTime(date) # Number(0)
      THEN getTime(date)
      ELSE Number(0)

\* date?.getTime() ? date.getTime() / 1000 : 0
\* (undefined and the number 0 are both falsy).
UnixSeconds(date) ==
    IF date.kind = "date" /\ getTime(date) # Number(0)
      THEN DivideBy1000(getTime(date))
      ELSE Number(0)

Digit(d) == <<"0", "1", "2", "3", "4", "5", "6", "7", "8", "9">>[d + 1]

RECURSIVE NatToString(_)
NatToString(n) ==
    IF n < 10 THEN Digit(n) ELSE NatToString(n \div 10) \o Digit(n % 10)

\* The digits after the point of f thousandths (0 < f < 1000), without trailing zeros.
FractionDigits(f) ==
    IF f % 100 = 0 THEN Digit(f \div 100)
    ELSE IF f % 10 = 0 THEN Digit(f \div 100) \o Digit((f \div 10) % 10)
    ELSE Digit(f \div 100) \o Digit((f \div 10) % 10) \o Digit(f % 10)

\* Number.prototype.toString of a number of at most three decimals.
NumberToString(x) ==
    LET a == IF x < 0 THEN 0 - x ELSE x
    IN  (IF x < 0 THEN "-" ELSE "") \o NatToString(a \div Thousandths)
            \o (IF a % Thousandths = 0 THEN "" ELSE "." \o FractionDigits(a % Thousandths))

IntervalsHeaders(pelmAccountId, pelmToken, start, end) ==
    ("account_id" :> pelmAccountId) @@ ("start_date" :> NumberToString(start))
        @@ ("end_date" :> NumberToString(end))
        @@ ("authorization" :> Bearer(pelmToken))
        @@ ("pelm-client-id" :> pelmClientId) @@ ("pelm-secret" :> pelmSecret)

CallGetPelmIntervals ==
    /\ status = "idle"
    /\ \E b \in Bundles, pelmAccountId \in AccountIds, pelmToken \in AccessTokens,
       startDate \in Dates, endDate \in Dates :
        /\ Begin("getPelmIntervals", b,
                 [pelmAccountId |-> pelmAccountId, pelmToken |-> pelmToken,
                  startDate |-> startDate, endDate |-> endDate],
                 <<getRequest("https://api.pelm.com/intervals",
                              IntervalsHeaders(pelmAccountId, pelmToken,
                                               UnixSeconds(startDate),
                                               UnixSeconds(endDate)), 1)>>)
        /\ Suspend

-----------------------------------------------------------------------------
(* totalUsageIntervals, index.ts:245-256 *)

UsageValues == {-1, 0, 2}
EmissionValues == {0, 5}

\* A usage interval; its start and end are not read by the aggregator.
Intervals == [usage : UsageValues, ghg_emissions : EmissionValues]

IntervalLists == UNION {[1..n -> Intervals] : n \in 0..MaxIntervals}

IntervalsResponses ==
    {[utility |-> "util1", account |-> "acct1", intervals |-> l] : l \in IntervalLists}

\* intervals.reduce((accumulator, interval) => accumulator + interval.usage, accumulator)
RECURSIVE ReduceUsage(_, _)
ReduceUsage(intervals, accumulator) ==
    IF intervals = << >> THEN accumulator
    ELSE ReduceUsage(Tail(intervals), accumulator + Head(intervals).usage)

\* Mutant: the second fold reads the usage field too.
ReduceEmissions_Usage(intervals, accumulator) == ReduceUsage(intervals, accumulator)

RECURSIVE ReduceEmissions(_, _)
ReduceEmissions(intervals, accumulator) ==
    IF intervals = << >> THEN accumulator
    ELSE ReduceEmissions(Tail(intervals), accumulator + Head(intervals).ghg_emissions)

TotalUandE(accountsAndIntervals) ==
    [totalUsage |-> ReduceUsage(accountsAndIntervals.intervals, 0),
     totalEmissions |-> ReduceEmissions(accountsAndIntervals.intervals, 0)]

\* The function has no await: it runs to its return when invoked.
CallTotalUsageIntervals ==
    /\ status = "idle"
    /\ \E b \in Bundles, accountsAndIntervals \in IntervalsResponses :
        /\ Begin("totalUsageIntervals", b,
                 [accountsAndIntervals |-> accountsAndIntervals], << >>)
        /\ status' = "returned"
        /\ ret' = TotalUandE(accountsAndIntervals)
        /\ UNCHANGED <<values, remaining>>

-----------------------------------------------------------------------------
(* The settling of an HTTP call: postRequest / getRequest, index.ts:76-87, 199-205 *)

\* Mutant: the failure is caught and the run returns.
Propagate_Swallowed(e) == [status |-> "returned", err |-> NoError]

\* Mutant: the failure is replaced by another one.
Propagate_Wrapped(e) == [status |-> "failed", err |-> [layer |-> "unknown", slot |-> 0]]

\* An async function whose awaited promise rejects with e rejects with e.
Propagate(e) == [status |-> "failed", err |-> e]

\* The run after the call in slot k failed at `layer`.  A promise settles
\* once: a run that has already failed keeps its first failure.
Reject(k, layer) ==
    LET e == [layer |-> layer, slot |-> k]
    IN  /\ calls' = [calls EXCEPT ![k].phase = "failed", ![k].error = e]
        /\ status' = IF status = "running" THEN Propagate(e).status ELSE status
        /\ err' = IF status = "running" THEN Propagate(e).err ELSE err
        /\ UNCHANGED <<pelmClientId, pelmSecret, sdks, op, via, args, ret,
                       values, remaining, firstArrival>>

\* await fetch(...) resolves: the response's head has arrived.
FetchResolves ==
    \E k \in DOMAIN calls :
        /\ calls[k].phase = "fetch"
        /\ calls' = [calls EXCEPT ![k].phase = "json"]
        /\ UNCHANGED <<pelmClientId, pelmSecret, sdks, op, via, args, status, ret, err,
                       values, remaining, firstArrival>>

\* await fetch(...) rejects: a transport failure.
FetchRejects ==
    \E k \in DOMAIN calls :
        /\ calls[k].phase = "fetch"
        /\ Reject(k, "transport")

\* await response.json() rejects: the body is not JSON.
JsonRejects ==
    \E k \in DOMAIN calls :
        /\ calls[k].phase = "json"
        /\ Reject(k, "json")

\* The calls after response.json() of call k resolved with body.
Arrived(k, body) == [calls EXCEPT ![k].phase = "done", ![k].resp = body]

\* await response.json() resolves with body for call k, issued for `url` by
\* one of the operations `ops`.
JsonResolves(k, body, url, ops) ==
    /\ calls[k].phase = "json"
    /\ calls[k].url = url
    /\ op \in ops
    /\ firstArrival' = IF firstArrival = 0 THEN k ELSE firstArrival
    /\ UNCHANGED <<pelmClientId, pelmSecret, sdks, op, via, args, err>>

\* The run returns value.
Return(value) ==
    /\ status' = "returned"
    /\ ret' = value
    /\ UNCHANGED <<values, remaining>>

-----------------------------------------------------------------------------
(* The continuations of the token exchange pipeline *)

\* const token: string = response.connect_token
ConnectTokenOf(response) == Property(response, "connect_token")

\* Mutant: a missing field defaults to the empty string.
AuthCodeOf_Defaulted(response) ==
    IF "authorization_code" \in DOMAIN response THEN response["authorization_code"] ELSE ""

\* const authCode: string = response.authorization_code
AuthCodeOf(response) == Property(response, "authorization_code")

\* const accessToken: string = response.access_token
AccessTokenOf(response) == Property(response, "access_token")

\* getConnectToken returns; within getOrCreatePelmToken the run goes on to
\* getAuthCode with the value returned (index.ts:144-145).
GetConnectTokenReturns ==
    \E k \in DOMAIN calls, body \in Bodies :
        /\ JsonResolves(k, body, "https://api.pelm.com/auth/connect-token",
                        {"getConnectToken", "getOrCreatePelmToken"})
        /\ LET connectToken == ConnectTokenOf(body)
           IN  IF op = "getConnectToken"
                 THEN /\ calls' = Arrived(k, body)
                      /\ Return(connectToken)
                 ELSE /\ calls' = Append(Arrived(k, body),
                                         AuthCodeRequest(args.providerCode, args.username,
                                                         args.password, connectToken, k + 1))
                      /\ UNCHANGED <<status, ret, values, remaining>>

\* getAuthCode returns; within getOrCreatePelmToken the run goes on to
\* getAccessToken with the value returned (index.ts:145-146).
GetAuthCodeReturns ==
    \E k \in DOMAIN calls, body \in Bodies :
        /\ JsonResolves(k, body, "https://api.pelm.com/connect",
                        {"getAuthCode", "getOrCreatePelmToken"})
        /\ LET authCode == AuthCodeOf(body)
           IN  IF op = "getAuthCode"
                 THEN /\ calls' = Arrived(k, body)
                      /\ Return(authCode)
                 ELSE /\ calls' = Append(Arrived(k, body), AccessTokenRequest(authCode, k + 1))
                      /\ UNCHANGED <<status, ret, values, remaining>>

\* getAccessToken returns, and so does getOrCreatePelmToken (index.ts:146-147).
GetAccessTokenReturns ==
    \E k \in DOMAIN calls, body \in Bodies :
        /\ JsonResolves(k, body, "https://api.pelm.com/auth/token",
                        {"getAccessToken", "getOrCreatePelmToken"})
        /\ calls' = Arrived(k, body)
        /\ Return(AccessTokenOf(body))

-----------------------------------------------------------------------------
(* The continuations of the resource accessors *)

\* getPelmAccounts, getBillsPelm and getPelmIntervals return the decoded body.
GetRequestReturns ==
    \E k \in DOMAIN calls, body \in Bodies :
        /\ JsonResolves(k, body, calls[k].url,
                        {"getPelmAccounts", "getBillsPelm", "getPelmIntervals"})
        /\ calls' = Arrived(k, body)
        /\ Return(body)

\* Mutant: the values are stored in their order of arrival.
PromiseAllIndex_Arrival(k) == Cardinality({j \in DOMAIN calls : calls[j].phase = "done"}) + 1

\* Promise.all stores the value of the promise of the i-th callback at index i.
PromiseAllIndex(k) == calls[k].slot

\* One of the callbacks of getBillPdfs returns its response; Promise.all
\* resolves with its array once no promise is left, and getBillPdfs returns it.
BillPdfReturns ==
    \E k \in DOMAIN calls, body \in Bodies :
        /\ JsonResolves(k, body, calls[k].url, {"getBillPdfs"})
        /\ calls' = Arrived(k, body)
        /\ values' = [values EXCEPT ![PromiseAllIndex(k)] = body]
        /\ remaining' = remaining - 1
        /\ IF remaining' = 0 /\ status = "running"
             THEN status' = "returned" /\ ret' = values'
             ELSE UNCHANGED <<status, ret>>

-----------------------------------------------------------------------------

Next ==
    \/ PelmSDK
    \/ CallGetOrCreatePelmToken
    \/ CallGetConnectToken
    \/ CallGetAuthCode
    \/ CallGetAccessToken
    \/ CallGetPelmAccounts
    \/ CallGetBillsPelm
    \/ CallGetBillPdfs
    \/ CallGetPelmIntervals
    \/ CallTotalUsageIntervals
    \/ FetchResolves
    \/ FetchRejects
    \/ JsonRejects
    \/ GetConnectTokenReturns
    \/ GetAuthCodeReturns
    \/ GetAccessTokenReturns
    \/ GetRequestReturns
    \/ BillPdfReturns

Spec == Init /\ [][Next]_vars

-----------------------------------------------------------------------------
(* Reading the calls *)

\* HTTP header names are case-insensitive: the name as it goes on the wire.
LowerCase(name) ==
    CASE name = "Authorization" -> "authorization"
      [] name = "Pelm-Client-Id" -> "pelm-client-id"
      [] name = "Pelm-Secret" -> "pelm-secret"
      [] OTHER -> name

HasHeader(call, name) == \E h \in DOMAIN call.headers : LowerCase(h) = name

HeaderValue(call, name) ==
    call.headers[CHOOSE h \in DOMAIN call.headers : LowerCase(h) = name]

HasCredentials(call) == HasHeader(call, "pelm-client-id") /\ HasHeader(call, "pelm-secret")

\* The client id and secret a call carries.
CredentialsOf(call) ==
    <<HeaderValue(call, "pelm-client-id"), HeaderValue(call, "pelm-secret")>>

\* The credentials passed to the n-th factory invocation (none before the first).
FactoryCredentials(n) == IF n = 0 THEN <<Undefined, Undefined>> ELSE sdks[n]

ConnectTokenUrl == "https://api.pelm.com/auth/connect-token"
ConnectUrl == "https://api.pelm.com/connect"
TokenUrl == "https://api.pelm.com/auth/token"

IsPipeline == op = "getOrCreatePelmToken"

-----------------------------------------------------------------------------
(* C1 *)

\* C1: a run of getOrCreatePelmToken issues POSTs to connect-token, connect
\* and token in that order and no other call; the connect call exists only
\* once the connect-token call has resolved and its authorization is
\* "Bearer " followed by the connect_token of the first response; the token
\* call exists only once the connect call has resolved and its code field
\* is the authorization_code of the second response; a run in which no call
\* fails ends with exactly these three calls and returns the access_token
\* of the third response.
C1_PipelineOrder ==
    IsPipeline =>
        /\ Len(calls) \in 1..3
        /\ \A k \in DOMAIN calls :
              /\ calls[k].method = "POST"
              /\ calls[k].url = <<ConnectTokenUrl, ConnectUrl, TokenUrl>>[k]
        /\ calls[1].body = [user_id |-> args.pelmUserId]
        /\ Len(calls) >= 2 =>
              /\ calls[1].phase = "done"
              /\ HeaderValue(calls[2], "authorization") =
                    (IF "connect_token" \in DOMAIN calls[1].resp
                       THEN "Bearer " \o calls[1].resp.connect_token
                       ELSE "Bearer undefined")
              /\ calls[2].body = [utility_id |-> args.providerCode,
                                  username |-> args.username, password |-> args.password]
        /\ Len(calls) = 3 =>
              /\ calls[2].phase = "done"
              /\ DOMAIN calls[3].body = {"code"}
              /\ "authorization_code" \in DOMAIN calls[2].resp =>
                    calls[3].body.code = calls[2].resp.authorization_code
        /\ status = "returned" =>
              /\ Len(calls) = 3
              /\ calls[3].phase = "done"
              /\ "access_token" \in DOMAIN calls[3].resp =>
                    ret = calls[3].resp.access_token
        /\ (Len(calls) = 3 /\ calls[3].phase = "done") => status = "returned"

\* A run in which every step answered with its field has returned the third token.
C1_Witness ==
    /\ IsPipeline
    /\ status = "returned"
    /\ Len(calls) = 3
    /\ calls[1].resp = [connect_token |-> "ct1", authorization_code |-> "ac1",
                        access_token |-> "at1"]
    /\ HeaderValue(calls[2], "authorization") = "Bearer ct1"
    /\ calls[3].body.code = "ac2"
    /\ ret = "at1"

-----------------------------------------------------------------------------
(* C2 *)

\* C2 as stated: every call issued after a factory invocation carries
\* pelm-client-id and pelm-secret, with the values of the latest invocation.
C2_EveryCallCarriesCredentials ==
    \A k \in DOMAIN calls :
        calls[k].sdk > 0 =>
            /\ HasCredentials(calls[k])
            /\ CredentialsOf(calls[k]) = sdks[calls[k].sdk]

\* C2 amended: every call issued after a factory invocation, other than
\* the POST to /connect, carries pelm-client-id and pelm-secret with the
\* values passed to the latest factory invocation that preceded the call;
\* the POST to /connect carries neither header.
C2_AllButConnectCarryCredentials ==
    \A k \in DOMAIN calls :
        calls[k].sdk > 0 =>
            IF calls[k].url = ConnectUrl
              THEN /\ ~HasHeader(calls[k], "pelm-client-id")
                   /\ ~HasHeader(calls[k], "pelm-secret")
              ELSE /\ HasCredentials(calls[k])
                   /\ CredentialsOf(calls[k]) = sdks[calls[k].sdk]

\* All three calls of a pipeline run were issued after a factory invocation:
\* the first and the third carry its credentials, the second does not.
C2_Witness ==
    /\ IsPipeline
    /\ Len(calls) = 3
    /\ calls[1].sdk > 0
    /\ CredentialsOf(calls[1]) = <<"c1", "s1">>
    /\ ~HasCredentials(calls[2])
    /\ CredentialsOf(calls[3]) = <<"c1", "s1">>

-----------------------------------------------------------------------------
(* C3 *)

\* C3: from its invocation on, getBillPdfs(token, ids) has issued exactly one
\* GET per element of ids, the i-th for /bills/<ids[i]>/pdf, all of them
\* before any response; it returns exactly when every response has arrived,
\* and then returns a sequence as long as ids whose i-th element is the
\* response to the i-th GET, whatever the order of arrival.
C3_BillPdfsInOrder ==
    op = "getBillPdfs" =>
        LET ids == args.pelmBillIds
        IN  /\ Len(calls) = Len(ids)
            /\ \A i \in DOMAIN calls :
                  /\ calls[i].method = "GET"
                  /\ calls[i].url = "https://api.pelm.com/bills/" \o ids[i] \o "/pdf"
            /\ status = "returned" <=> (\A i \in DOMAIN calls : calls[i].phase = "done")
            /\ status = "returned" =>
                  /\ Len(ret) = Len(ids)
                  /\ \A i \in DOMAIN calls : ret[i] = calls[i].resp

\* Two different responses arrived, the second one first, and were returned
\* in the order of the ids.
C3_Witness ==
    /\ op = "getBillPdfs"
    /\ status = "returned"
    /\ Len(args.pelmBillIds) = 2
    /\ firstArrival = 2
    /\ calls[1].resp # calls[2].resp
    /\ ret = <<calls[1].resp, calls[2].resp>>

-----------------------------------------------------------------------------
(* C4 *)

\* C4: once one of the GETs of getBillPdfs has failed, the call has failed
\* with the first such failure and has returned nothing, whichever GET
\* failed and whatever the other GETs do.
C4_BillPdfsFailAsAWhole ==
    (op = "getBillPdfs" /\ \E k \in DOMAIN calls : calls[k].phase = "failed") =>
        /\ status = "failed"
        /\ ret = Undefined
        /\ \E k \in DOMAIN calls : calls[k].phase = "failed" /\ err = calls[k].error

\* One GET failed and another one succeeded: the call has failed.
C4_Witness ==
    /\ op = "getBillPdfs"
    /\ Len(calls) = 2
    /\ calls[1].phase = "done"
    /\ calls[2].phase = "failed"
    /\ firstArrival = 1
    /\ status = "failed"

-----------------------------------------------------------------------------
(* C5 *)

\* The sum of f over the indices in S, taken in no particular order.
RECURSIVE SumOver(_, _)
SumOver(f, S) ==
    IF S = {} THEN 0
    ELSE LET i == CHOOSE j \in S : TRUE IN f[i] + SumOver(f, S \ {i})

\* R with its intervals rearranged by the permutation p of their indices.
Rearranged(R, p) ==
    [R EXCEPT !.intervals = [i \in DOMAIN R.intervals |-> R.intervals[p[i]]]]

-----------------------------------------------------------------------------
(* C6 *)

\* String(ms / 1000) for the milliseconds of MsValues, written out.
SecondsText ==
    (-1500 :> "-1.5") @@ (0 :> "0") @@ (1 :> "0.001") @@ (1000 :> "1")
        @@ (1500 :> "1.5") @@ (12340 :> "12.34")

\* The text the claim expects for a date bound.
ExpectedBound(date) == IF date.kind = "absent" THEN "0" ELSE SecondsText[date.ms]

-----------------------------------------------------------------------------
(* C7 *)

\* The field each wrapper reads from its response.
FieldOf ==
    [getConnectToken |-> "connect_token", getAuthCode |-> "authorization_code",
     getAccessToken |-> "access_token"]

Missing(call, field) == call.phase = "done" /\ field \notin DOMAIN call.resp

-----------------------------------------------------------------------------
(* C8 *)

\* Every call that carries credentials carries those of the latest factory
\* invocation that preceded it, and those of no earlier invocation that
\* differ, whichever bundle the run was invoked through.
C8_LatestCredentials ==
    \A k \in DOMAIN calls :
        (HasCredentials(calls[k]) /\ via \in 1..calls[k].sdk) =>
            /\ CredentialsOf(calls[k]) = sdks[calls[k].sdk]
            /\ \A j \in 1..calls[k].sdk :
                  sdks[j] # sdks[calls[k].sdk] => CredentialsOf(calls[k]) # sdks[j]

\* A step that changes the credential context is an invocation of the
\* factory, and leaves in it the arguments of that invocation.
C8_OnlyFactoryWrites ==
    (pelmClientId' # pelmClientId \/ pelmSecret' # pelmSecret) =>
        /\ Len(sdks') = Len(sdks) + 1
        /\ <<pelmClientId', pelmSecret'>> = sdks'[Len(sdks')]

\* C8: the factory overwrites the credential context on every invocation:
\* the context always holds the arguments of the latest invocation, every
\* credential-bearing call carries them, also when its run was invoked
\* through a bundle returned by an earlier invocation, and no step other
\* than a factory invocation changes the context.
C8_FactoryOverwrites ==
    /\ [](Len(sdks) > 0 => <<pelmClientId, pelmSecret>> = sdks[Len(sdks)])
    /\ []C8_LatestCredentials
    /\ [][C8_OnlyFactoryWrites]_vars

\* After PelmSDK(c1, s1) and PelmSDK(c2, s2), a run invoked through the
\* first bundle sends c2 and s2.
C8_Witness ==
    /\ sdks = <<(<<"c1", "s1">>), (<<"c2", "s2">>)>>
    /\ via = 1
    /\ op = "getBillPdfs"
    /\ Len(calls) = 2
    /\ \A k \in 1..2 : calls[k].sdk = 2 /\ CredentialsOf(calls[k]) = <<"c2", "s2">>

-----------------------------------------------------------------------------
(* C9 *)

\* C9: when the call of step k of getOrCreatePelmToken has failed, the run
\* has failed with that failure, a transport or a JSON failure, and the
\* call of step k is the last one issued; no step is issued twice.
C9_FailureStopsPipeline ==
    IsPipeline =>
        /\ \A k \in DOMAIN calls :
              calls[k].phase = "failed" =>
                  /\ status = "failed"
                  /\ err = calls[k].error
                  /\ err.layer \in {"transport", "json"}
                  /\ err.slot = k
                  /\ Len(calls) = k
        /\ \A i, j \in DOMAIN calls : i # j => calls[i].url # calls[j].url
        /\ status = "failed" => calls[Len(calls)].phase = "failed"

\* The connect call failed to decode: the run failed after two calls.
C9_Witness ==
    /\ IsPipeline
    /\ Len(calls) = 2
    /\ calls[2].phase = "failed"
    /\ calls[2].error.layer = "json"
    /\ status = "failed"

-----------------------------------------------------------------------------
(* C10 *)

\* C10 as stated: step 1 and step 3 of a run of getOrCreatePelmToken carry
\* the same client id and secret.
C10_SameCredentials ==
    (IsPipeline /\ Len(calls) = 3) => CredentialsOf(calls[1]) = CredentialsOf(calls[3])

\* C10 amended: step 1 and step 3 each carry the credentials of the latest
\* factory invocation that preceded the issue of that step (undefined ones
\* before the first); they carry the same ones when every factory
\* invocation between the two issues passed the credentials step 1 carries.
C10_CredentialsAtIssue ==
    (IsPipeline /\ Len(calls) = 3) =>
        /\ \A k \in {1, 3} : CredentialsOf(calls[k]) = FactoryCredentials(calls[k].sdk)
        /\ calls[1].sdk <= calls[3].sdk
        /\ (\A j \in (calls[1].sdk + 1)..calls[3].sdk : sdks[j] = CredentialsOf(calls[1]))
              => CredentialsOf(calls[1]) = CredentialsOf(calls[3])

\* The factory was invoked with other credentials between step 1 and step 3.
C10_Witness ==
    /\ IsPipeline
    /\ Len(calls) = 3
    /\ calls[1].sdk = 1
    /\ calls[3].sdk = 2
    /\ CredentialsOf(calls[1]) = <<"c1", "s1">>
    /\ CredentialsOf(calls[3]) = <<"c2", "s2">>

====
